---------------------------- MODULE Spec2Model ----------------------------
(***************************************************************************)
(* Model of tools/capture_monitor_to_excel.py: the tare handshake          *)
(* (run_tare_before_monitor) and the monitor capture loop                  *)
(* (capture_monitor_session) talking to a device over a serial line.       *)
(*                                                                         *)
(* Time is counted in ticks of one serial read timeout (0.5 s, the         *)
(* timeout= argument of serial.Serial).  The wall clock advances only      *)
(* while the program is blocked in ser.readline(): an empty read lasts     *)
(* exactly one read timeout, a read that yields a line lasts between 0 and *)
(* one read timeout.  Everything else the program does takes no time.      *)
(*                                                                         *)
(* A line is a sequence of characters; each protocol marker is one         *)
(* character of the alphabet, so "marker in line" is membership.           *)
(***************************************************************************)
EXTENDS Integers, Sequences, FiniteSets, TLC

\* ------------------------------------------------------------------ bounds
\* the clock stops at MaxTime ticks
MaxTime == 5
\* the capture loop reads at most MaxRx non-empty lines
MaxRx == 3

\* ------------------------------------------------------- program constants
\* serial.Serial(..., timeout=0.5): one read timeout is one tick
Poll == 1
\* tare_timeout_s of run_tare_before_monitor, in ticks (scaled down from 60 s)
tare_timeout_s == 1

\* Optional values (Python None / a value)
None == <<>>
Some(v) == <<v>>
Val(o) == o[1]

\* ------------------------------------------------------------------ markers
TARE_BANNER == "=== TARING STRAIN GAUGE ==="
TARE_OK == "Strain gauge zeroed successfully!"
TARE_FAIL == "Failed to zero strain gauge!"
TARE_CLOSE == "==========================="
M_START == "[M_SESSION_START]"
M_END == "[M_SESSION_END]"
M_STOPPED == "Monitoring stopped. Collected"

\* a byte utf-8 cannot decode
BadByte == "\\xff"

Digits == {"0", "1", "2", "3", "4", "5", "6", "7", "8", "9"}
Spaces == {" "}

\* "marker" in line
Contains(line, marker) == \E i \in 1..Len(line) : line[i] = marker

\* raw.decode("utf-8", errors="ignore")
Decode(raw) == SelectSeq(raw, LAMBDA c : c # BadByte)

\* str.strip()
Strip(s) ==
    LET idx == {i \in 1..Len(s) : s[i] \notin Spaces}
        lo == CHOOSE i \in idx : \A j \in idx : i <= j
        hi == CHOOSE i \in idx : \A j \in idx : i >= j
    IN IF idx = {} THEN <<>> ELSE SubSeq(s, lo, hi)

\* ------------------------------------------------------------- ROW_PATTERN
\* First position at or after i whose character is not in S (Len(s)+1 if none):
\* the end of a greedy  [S]*  starting at i.
SkipSet(s, i, S) ==
    CHOOSE j \in i..(Len(s) + 1) :
        /\ \A k \in i..(j - 1) : s[k] \in S
        /\ (j = Len(s) + 1 \/ s[j] \notin S)

\* Each matcher returns the position after the match, or 0 if there is none.
\* [0-9]+
MatchUInt(s, i) ==
    IF i = 0 \/ i > Len(s) THEN 0
    ELSE LET j == SkipSet(s, i, Digits) IN IF j > i THEN j ELSE 0

\* [0-9]+(?:\.[0-9]+)?
MatchUDec(s, i) ==
    LET j == MatchUInt(s, i)
    IN IF j = 0 THEN 0
       ELSE IF j <= Len(s) /\ s[j] = "." /\ MatchUInt(s, j + 1) # 0
            THEN MatchUInt(s, j + 1)
            ELSE j

\* -?
MatchSign(s, i) == IF i # 0 /\ i <= Len(s) /\ s[i] = "-" THEN i + 1 ELSE i

\* -?\d+
MatchInt(s, i) == MatchUInt(s, MatchSign(s, i))

\* -?\d+(?:\.\d+)?
MatchDec(s, i) == MatchUDec(s, MatchSign(s, i))

\* \s*,\s*
MatchSep(s, i) ==
    IF i = 0 THEN 0
    ELSE LET j == SkipSet(s, i, Spaces)
         IN IF j <= Len(s) /\ s[j] = "," THEN SkipSet(s, j + 1, Spaces) ELSE 0

\* ROW_PATTERN.match(line): the seven groups' texts, or None.  re.match anchors
\* the pattern at the start of the line only; nothing is required after the
\* seventh field.
ROW_PATTERN(s) ==
    LET b1 == SkipSet(s, 1, Spaces)
        e1 == MatchUDec(s, b1)
        b2 == MatchSep(s, e1)
        e2 == MatchUInt(s, b2)
        b3 == MatchSep(s, e2)
        e3 == MatchInt(s, b3)
        b4 == MatchSep(s, e3)
        e4 == MatchInt(s, b4)
        b5 == MatchSep(s, e4)
        e5 == MatchInt(s, b5)
        b6 == MatchSep(s, e5)
        e6 == MatchInt(s, b6)
        b7 == MatchSep(s, e6)
        e7 == MatchDec(s, b7)
    IN IF e7 = 0 THEN None
       ELSE Some(<< SubSeq(s, b1, e1 - 1), SubSeq(s, b2, e2 - 1),
                    SubSeq(s, b3, e3 - 1), SubSeq(s, b4, e4 - 1),
                    SubSeq(s, b5, e5 - 1), SubSeq(s, b6, e6 - 1),
                    SubSeq(s, b7, e7 - 1) >>)

DigitVal(c) ==
    CASE c = "0" -> 0 [] c = "1" -> 1 [] c = "2" -> 2 [] c = "3" -> 3
      [] c = "4" -> 4 [] c = "5" -> 5 [] c = "6" -> 6 [] c = "7" -> 7
      [] c = "8" -> 8 [] c = "9" -> 9

RECURSIVE DigitsVal(_)
DigitsVal(t) ==
    IF t = <<>> THEN 0
    ELSE 10 * DigitsVal(SubSeq(t, 1, Len(t) - 1)) + DigitVal(t[Len(t)])

\* int(text) for a text matching -?\d+
ToInt(t) ==
    IF t[1] = "-" THEN 0 - DigitsVal(Tail(t)) ELSE DigitsVal(t)

RECURSIVE Normalize(_, _)
Normalize(m, e) ==
    IF e > 0 /\ m % 10 = 0 THEN Normalize(m \div 10, e - 1) ELSE <<m, e>>

\* float(text) for a text matching -?\d+(?:\.\d+)? : the pair <<m, e>> stands
\* for m / 10^e with no trailing zero in the fraction, so that equal numbers
\* have equal pairs ("0.10" and "0.1" both give <<1, 1>>).
ToFloat(t) ==
    LET neg == t[1] = "-"
        u == IF neg THEN Tail(t) ELSE t
        dots == {i \in 1..Len(u) : u[i] = "."}
        d == IF dots = {} THEN Len(u) + 1 ELSE CHOOSE i \in dots : TRUE
        whole == SubSeq(u, 1, d - 1)
        frac == SubSeq(u, d + 1, Len(u))
        n == Normalize(DigitsVal(whole \o frac), Len(frac))
    IN <<IF neg THEN 0 - n[1] ELSE n[1], n[2]>>

\* parse_row(line): the row record, or None
parse_row(line) ==
    LET match == ROW_PATTERN(line)
    IN IF match = None THEN None
       ELSE LET g == Val(match)
            IN Some([elapsed_s |-> ToFloat(g[1]),
                     sample_ms |-> ToInt(g[2]),
                     raw_adc |-> ToInt(g[3]),
                     avg_20 |-> ToInt(g[4]),
                     filtered_20 |-> ToInt(g[5]),
                     zeroed_adc |-> ToInt(g[6]),
                     strain_uE |-> ToFloat(g[7])])

\* The row grammar as the specification words it: the whole line, spaces
\* apart, is seven comma-separated fields of the stated shapes.
Unspaced(s) == SelectSeq(s, LAMBDA c : c \notin Spaces)
WholeLineRow(s) ==
    /\ ROW_PATTERN(s) # None
    /\ LET g == Val(ROW_PATTERN(s))
       IN Unspaced(s) = g[1] \o <<",">> \o g[2] \o <<",">> \o g[3] \o <<",">>
                          \o g[4] \o <<",">> \o g[5] \o <<",">> \o g[6]
                          \o <<",">> \o g[7]

\* ------------------------------------------------------- lines of the device
R1 == << "0", ".", "1", "0", ",", "1", ",", "-", "1", ",", "1", ",", "1", ",",
         "1", ",", "1", ".", "5" >>
R2 == << "2", " ", ",", " ", "1", ",", "1", ",", "1", ",", "1", ",", "1", ",",
         "-", "3" >>

\* what ser.readline() can return during the handshake (<<>>: read timeout)
TareInputs ==
    { <<>>, <<" ", BadByte>>, <<"t">>, <<TARE_BANNER>>, <<TARE_OK>>,
      <<TARE_FAIL>>, <<TARE_CLOSE>>, <<TARE_BANNER, " ", TARE_CLOSE>>,
      <<TARE_OK, " ", TARE_FAIL>>, <<TARE_FAIL, " ", TARE_CLOSE>>,
      <<" ">> \o R2 }

\* what ser.readline() can return during the capture loop
MonInputs ==
    { <<>>, <<" ", BadByte>>, <<"t">>, <<M_START>>, <<M_END>>,
      <<M_STOPPED, " ", "3">>, R1 \o <<" ">>,
      R1 \o <<" ", M_START>>, R1 \o <<M_END>> }

\* the --timeout and --duration arguments
Timeouts == {0 - 1, 0, 1, 2}
Durations == {None, Some(0), Some(1)}

\* the markers the handshake looks for, and the record of no line read
TareMarkers == {TARE_BANNER, TARE_OK, TARE_FAIL, TARE_CLOSE}
NoLine == [empty |-> TRUE, marks |-> {}]

\* the record of no stop command written; by: "soft" for the duration branch,
\* "hard" for the timeout check; on_line: the number of the line being
\* processed when it was written (0 at the timeout check); reads: the
\* readline() calls made after a stop written by the timeout check
NoStop == [by |-> "none", on_line |-> 0, reads |-> 0]

START_CMD == "m"
STOP_CMD == "x\\n"
TARE_CMD == "z"

VARIABLES
    pc,                  \* where the program is
    now,                 \* time.time(), in ticks
    duration, timeout,   \* arguments of capture_monitor_session
    portOpen,            \* the serial port is open
    written,             \* what has been written to the device, in order
    tare_start, saw_tare_banner,
    start_wall, rows, collecting, sent_stop, monitor_start_wall,
    err,                 \* the exception propagating out of the with block
    result,              \* what the caller of capture_monitor_session gets
    rxCount,             \* history: non-empty lines read by the capture loop
    rowSrc,              \* history: for each row, the number of its line
    startIdx,            \* history: number of the first session-start line
    exit_by,             \* history: how the capture loop was left
    ignored,             \* history: a data or end line was read and dropped
                         \*   while still waiting for the session start
    tare_ok_seen,        \* history: the handshake read a tare-success line
    tare_last,           \* history: what the last readline() of the handshake
                         \*   gave: [empty, marks]
    banner_before,       \* history: saw_tare_banner before that line
    last,                \* history: what the last non-empty line read by the
                         \*   capture loop carried: [row, end]
    collect_began,       \* history: when the first session-start line was read
    matched,             \* history: the lines that are, whole, a row of the
                         \*   grammar, read from the first session-start line
                         \*   on: [n, row]
    stop_hist,           \* history: how the stop command came to be written:
                         \*   [by, on_line, reads]
    p_line, p_done, p_out \* parse_row called on its own: the line, whether
                         \*   the call has returned, and what it returned

vars == << pc, now, duration, timeout, portOpen, written, tare_start,
           saw_tare_banner, start_wall, rows, collecting, sent_stop,
           monitor_start_wall, err, result, rxCount, rowSrc, startIdx,
           exit_by, ignored, tare_ok_seen, last, collect_began, matched,
           tare_last, banner_before, stop_hist, p_line, p_done, p_out >>

config == << duration, timeout >>
tareVars == << tare_start, saw_tare_banner >>
monVars == << start_wall, rows, collecting, sent_stop, monitor_start_wall >>
\* history written by the reads of the capture loop only
readHist == << rxCount, rowSrc, startIdx, ignored, last, collect_began,
              matched >>
monHist == << readHist, exit_by, stop_hist >>
tareHist == << tare_ok_seen, tare_last, banner_before >>
hist == << monHist, tareHist >>
parseVars == << p_line, p_done, p_out >>

Init ==
    /\ pc = "open"
    /\ now = 0
    /\ duration \in Durations
    /\ timeout \in Timeouts
    /\ portOpen = FALSE
    /\ written = <<>>
    /\ tare_start = None
    /\ saw_tare_banner = FALSE
    /\ start_wall = None
    /\ rows = <<>>
    /\ collecting = FALSE
    /\ sent_stop = FALSE
    /\ monitor_start_wall = None
    /\ err = "none"
    /\ result = "none"
    /\ rxCount = 0
    /\ rowSrc = <<>>
    /\ startIdx = 0
    /\ exit_by = "none"
    /\ ignored = FALSE
    /\ tare_ok_seen = FALSE
    /\ tare_last = NoLine
    /\ banner_before = FALSE
    /\ last = [row |-> FALSE, end |-> FALSE]
    /\ collect_began = None
    /\ matched = <<>>
    /\ stop_hist = NoStop
    /\ p_line = <<>>
    /\ p_done = FALSE
    /\ p_out = None

\* with serial.Serial(...) as ser: reset_input_buffer(); reset_output_buffer()
OpenPort ==
    /\ pc = "open"
    /\ UNCHANGED parseVars
    /\ portOpen' = TRUE
    /\ pc' = "tare_write"
    /\ UNCHANGED << now, config, written, tareVars, monVars, err, result, hist >>

\* ---------------------------------------------------- run_tare_before_monitor
\* ser.write(b"z"); tare_start = time.time(); saw_tare_banner = False
TareWrite ==
    /\ pc = "tare_write"
    /\ UNCHANGED parseVars
    /\ written' = Append(written, TARE_CMD)
    /\ tare_start' = Some(now)
    /\ saw_tare_banner' = FALSE
    /\ pc' = "tare_check"
    /\ UNCHANGED << now, config, portOpen, monVars, err, result, hist >>

\* variant: the handshake deadline is one read timeout late
TareExpired_Late == (now - Val(tare_start)) > tare_timeout_s + Poll

\* (time.time() - tare_start) > tare_timeout_s
TareExpired == (now - Val(tare_start)) > tare_timeout_s

\* top of the handshake loop: the deadline check
TareCheck ==
    /\ pc = "tare_check"
    /\ UNCHANGED parseVars
    /\ IF TareExpired
       THEN /\ err' = "TareTimeout"
            /\ pc' = "with_exit"
       ELSE /\ pc' = "tare_read"
            /\ UNCHANGED err
    /\ UNCHANGED << now, config, portOpen, written, tareVars, monVars, result,
                    hist >>

\* variant: the failure marker is taken for a result that lets the caller go on
TareVerdict_FailReturns(l, banner) ==
    IF Contains(l, TARE_OK) \/ Contains(l, TARE_FAIL) THEN "ok"
    ELSE IF banner /\ Contains(l, TARE_CLOSE) THEN "TareEndedWithoutResult"
    ELSE "continue"

\* variant: a closing line ends the handshake whether or not the banner was
\* seen
TareVerdict_NoBanner(l, banner) ==
    IF Contains(l, TARE_OK) THEN "ok"
    ELSE IF Contains(l, TARE_FAIL) THEN "TareFailed"
    ELSE IF Contains(l, TARE_CLOSE) THEN "TareEndedWithoutResult"
    ELSE "continue"

\* what one handshake line decides, given the banner flag after this line:
\* the three tests of the loop body, in the order of the code
TareVerdict(l, banner) ==
    IF Contains(l, TARE_OK) THEN "ok"
    ELSE IF Contains(l, TARE_FAIL) THEN "TareFailed"
    ELSE IF banner /\ Contains(l, TARE_CLOSE) THEN "TareEndedWithoutResult"
    ELSE "continue"

\* raw = ser.readline() and the rest of the handshake loop body.  The time of
\* the 'z' write is kept until the caller goes on, so that the handshake's
\* duration can be read off; the banner flag is dropped on return.
TareRead(raw, d) ==
    /\ pc = "tare_read"
    /\ UNCHANGED parseVars
    /\ raw = <<>> => d = Poll
    /\ now + d <= MaxTime
    /\ now' = now + d
    /\ tare_ok_seen' = Contains(Strip(Decode(raw)), TARE_OK)
    /\ tare_last' = [empty |-> Strip(Decode(raw)) = <<>>,
                     marks |-> {m \in TareMarkers :
                                  Contains(Strip(Decode(raw)), m)}]
    /\ banner_before' = saw_tare_banner
    /\ LET l == Strip(Decode(raw))
           banner == saw_tare_banner \/ Contains(l, TARE_BANNER)
           v == TareVerdict(l, banner)
       IN IF l = <<>>
          THEN /\ pc' = "tare_check"
               /\ UNCHANGED << tareVars, err >>
          ELSE CASE v = "ok" ->
                      /\ pc' = "mon_start"
                      /\ saw_tare_banner' = FALSE
                      /\ UNCHANGED << tare_start, err >>
                 [] v = "continue" ->
                      /\ pc' = "tare_check"
                      /\ saw_tare_banner' = banner
                      /\ UNCHANGED << tare_start, err >>
                 [] OTHER ->
                      /\ pc' = "with_exit"
                      /\ saw_tare_banner' = banner
                      /\ err' = v
                      /\ UNCHANGED tare_start
    /\ UNCHANGED << config, portOpen, written, monVars, result, monHist >>

\* ---------------------------------------------------- capture_monitor_session
\* drain ser.in_waiting; ser.write(b"m"); start_wall = time.time()
\* time.time() is only ever used in differences (lines 62, 111, 139), and the
\* handshake's tare_start is out of scope here: the clock's epoch is moved to
\* this moment, so that sessions differing only in how long the handshake
\* took are one state.
StartMonitor ==
    /\ pc = "mon_start"
    /\ UNCHANGED parseVars
    /\ written' = Append(written, START_CMD)
    /\ now' = 0
    /\ tare_start' = None
    /\ start_wall' = Some(now')
    /\ pc' = "mon_check"
    /\ tare_last' = NoLine
    /\ banner_before' = FALSE
    /\ UNCHANGED << config, portOpen, saw_tare_banner, rows, collecting,
                    sent_stop, monitor_start_wall, err, result, monHist,
                    tare_ok_seen >>

\* variant: the deadline is one read timeout late
HardExpired_Late == timeout > 0 /\ (now - Val(start_wall)) > timeout + Poll

\* variant: the deadline is measured from the session start, not from 'm'
HardExpired_FromSession ==
    /\ timeout > 0
    /\ monitor_start_wall # None
    /\ (now - Val(monitor_start_wall)) > timeout

\* variant: the deadline no longer counts once the stop has been written
HardExpired_Once ==
    timeout > 0 /\ (now - Val(start_wall)) > timeout /\ ~sent_stop

\* timeout > 0 and (time.time() - start_wall) > timeout
HardExpired == timeout > 0 /\ (now - Val(start_wall)) > timeout

\* variant: the hard-timeout branch does not look at sent_stop
StopOnTimeout_Always == collecting

\* variant: the hard-timeout branch does not look at collecting
StopOnTimeout_NoCollect == ~sent_stop

\* collecting and not sent_stop
StopOnTimeout == collecting /\ ~sent_stop

\* top of the capture loop: the hard-timeout check
MonCheck ==
    /\ pc = "mon_check"
    /\ UNCHANGED parseVars
    /\ IF HardExpired
       THEN IF StopOnTimeout
            THEN /\ written' = Append(written, STOP_CMD)
                 /\ sent_stop' = TRUE
                 /\ stop_hist' = [by |-> "hard", on_line |-> 0, reads |-> 0]
                 /\ pc' = "mon_read"
                 /\ UNCHANGED exit_by
            ELSE /\ pc' = "with_exit"
                 /\ exit_by' = "timeout"
                 /\ UNCHANGED << written, sent_stop, stop_hist >>
       ELSE /\ pc' = "mon_read"
            /\ UNCHANGED << written, sent_stop, exit_by, stop_hist >>
    /\ UNCHANGED << now, config, portOpen, tareVars, start_wall, rows,
                    collecting, monitor_start_wall, err, result,
                    readHist, tareHist >>

\* variant: rows are parsed whether or not the session has started
IsRow_Always(l, c) == parse_row(l) # None

\* if collecting: parsed = parse_row(line); if parsed: rows.append(parsed)
IsRow(l, c) == c /\ parse_row(l) # None

\* variant: the soft-duration branch does not look at sent_stop
SoftDue_NoGuard(msw, t) ==
    /\ duration # None
    /\ msw # None
    /\ (t - Val(msw)) >= Val(duration)

\* variant: the stop is only due once the duration has been exceeded
SoftDue_Strict(msw, t) ==
    /\ duration # None
    /\ ~sent_stop
    /\ msw # None
    /\ (t - Val(msw)) > Val(duration)

\* duration is not None and not sent_stop and monitor_start_wall is not None
\* and (time.time() - monitor_start_wall) >= duration
SoftDue(msw, t) ==
    /\ duration # None
    /\ ~sent_stop
    /\ msw # None
    /\ (t - Val(msw)) >= Val(duration)

\* history: one more readline() since the timeout check wrote the stop
AfterRead(h) == IF h.by = "hard" THEN [h EXCEPT !.reads = @ + 1] ELSE h

\* variant: the completion phrase is not tested
IsEnd_MarkerOnly(l) == Contains(l, M_END)

\* "[M_SESSION_END]" in line or "Monitoring stopped. Collected" in line
IsEnd(l) == Contains(l, M_END) \/ Contains(l, M_STOPPED)

\* raw = ser.readline() and the rest of the capture loop body
MonRead(raw, d) ==
    /\ pc = "mon_read"
    /\ UNCHANGED parseVars
    /\ raw = <<>> => d = Poll
    /\ now + d <= MaxTime
    /\ now' = now + d
    /\ LET l == Strip(Decode(raw))
           started == Contains(l, M_START)
           c == collecting \/ started
           msw == IF started THEN Some(now') ELSE monitor_start_wall
       IN IF l = <<>>
          THEN /\ pc' = "mon_check"
               /\ stop_hist' = AfterRead(stop_hist)
               /\ UNCHANGED << written, rows, collecting, sent_stop,
                               monitor_start_wall, readHist, exit_by >>
          ELSE /\ rxCount < MaxRx
               /\ rxCount' = rxCount + 1
               /\ collecting' = c
               /\ monitor_start_wall' = msw
               /\ startIdx' = IF started /\ startIdx = 0 THEN rxCount'
                              ELSE startIdx
               /\ ignored' = (~c /\ (ignored \/ parse_row(l) # None \/ IsEnd(l)))
               /\ last' = [row |-> ROW_PATTERN(l) # None,
                           end |-> Contains(l, M_END) \/ Contains(l, M_STOPPED)]
               /\ collect_began' = IF collect_began = None /\ started
                                    THEN Some(now') ELSE collect_began
               /\ matched' = IF collect_began' # None /\ WholeLineRow(l)
                             THEN Append(matched, [n |-> rxCount',
                                                   row |-> Val(parse_row(l))])
                             ELSE matched
               /\ IF IsRow(l, c)
                  THEN /\ rows' = Append(rows, Val(parse_row(l)))
                       /\ rowSrc' = Append(rowSrc, rxCount')
                  ELSE UNCHANGED << rows, rowSrc >>
               /\ IF c /\ SoftDue(msw, now')
                  THEN /\ written' = Append(written, STOP_CMD)
                       /\ sent_stop' = TRUE
                       /\ stop_hist' = [by |-> "soft", on_line |-> rxCount',
                                        reads |-> 0]
                  ELSE /\ stop_hist' = AfterRead(stop_hist)
                       /\ UNCHANGED << written, sent_stop >>
               /\ IF c /\ IsEnd(l)
                  THEN /\ pc' = "with_exit"
                       /\ exit_by' = "end"
                  ELSE /\ pc' = "mon_check"
                       /\ UNCHANGED exit_by
    /\ UNCHANGED << config, portOpen, tareVars, start_wall, err, result,
                    tareHist >>

\* variant: the port is opened without a with block and never closed
ClosePort_Leak == portOpen

\* the with block's exit closes the port: ser.is_open afterwards
ClosePort == FALSE

\* leaving the with block, normally or by an exception that then reaches the
\* caller
WithExit ==
    /\ pc = "with_exit"
    /\ UNCHANGED parseVars
    /\ portOpen' = ClosePort
    /\ IF err # "none"
       THEN /\ result' = err
            /\ pc' = "done"
       ELSE /\ pc' = "finalize"
            /\ UNCHANGED result
    /\ UNCHANGED << now, config, written, tareVars, monVars, err, hist >>

\* variant: the empty check is missing
Outcome_NoCheck(rs) == "returned"

\* if not rows: raise RuntimeError(...)  else  return df
Outcome(rs) == IF rs = <<>> THEN "EmptySession" ELSE "returned"

Finalize ==
    /\ pc = "finalize"
    /\ UNCHANGED parseVars
    /\ result' = Outcome(rows)
    /\ pc' = "done"
    /\ UNCHANGED << now, config, portOpen, written, tareVars, monVars, err,
                    hist >>

Next ==
    \/ OpenPort
    \/ TareWrite
    \/ TareCheck
    \/ \E raw \in TareInputs, d \in 0..Poll : TareRead(raw, d)
    \/ StartMonitor
    \/ MonCheck
    \/ \E raw \in MonInputs, d \in 0..Poll : MonRead(raw, d)
    \/ WithExit
    \/ Finalize

Spec == Init /\ [][Next]_vars

\* ------------------------------------------------- parse_row on its own
\* the parts a line is put together from
ParseLead == { <<>>, <<" ">> }
ParseElapsed == { <<"0", ".", "1", "0">>, <<"2">>, <<"-", "1">>, <<"1", ".">> }
ParseMiddle ==
    { <<",", "1", ",", "-", "1", ",", "1", ",", "1", ",", "1", ",">>,
      <<" ", ",", " ", "1", ",", "1", ",", "1", ",", "1", ",">> }
ParseStrain == { <<"1", ".", "5">>, <<"-", "3">>, <<"x">> }
ParseTail ==
    { <<>>, <<" ">>, <<",", "8">>, <<"x">>, <<M_END>>, <<" ", M_START>>,
      <<".", "5">> }

\* the lines parse_row is called on
ParseLines ==
    { a \o b \o c \o d \o e :
        a \in ParseLead, b \in ParseElapsed, c \in ParseMiddle,
        d \in ParseStrain, e \in ParseTail }

\* no session is run: the session's variables stay as constructed
ParseInit ==
    /\ pc = "open"
    /\ now = 0
    /\ duration = None
    /\ timeout = 0
    /\ portOpen = FALSE
    /\ written = <<>>
    /\ tare_start = None
    /\ saw_tare_banner = FALSE
    /\ start_wall = None
    /\ rows = <<>>
    /\ collecting = FALSE
    /\ sent_stop = FALSE
    /\ monitor_start_wall = None
    /\ err = "none"
    /\ result = "none"
    /\ rxCount = 0
    /\ rowSrc = <<>>
    /\ startIdx = 0
    /\ exit_by = "none"
    /\ ignored = FALSE
    /\ tare_ok_seen = FALSE
    /\ tare_last = NoLine
    /\ banner_before = FALSE
    /\ last = [row |-> FALSE, end |-> FALSE]
    /\ collect_began = None
    /\ matched = <<>>
    /\ stop_hist = NoStop
    /\ p_line \in ParseLines
    /\ p_done = FALSE
    /\ p_out = None

\* p_out = parse_row(p_line)
ParseLine ==
    /\ ~p_done
    /\ p_done' = TRUE
    /\ p_out' = parse_row(p_line)
    /\ UNCHANGED << pc, now, config, portOpen, written, tareVars, monVars, err,
                    result, hist, p_line >>

ParseNext == ParseLine

ParseSpec == ParseInit /\ [][ParseNext]_vars

\* ===================================================================== claims
StopCount == Cardinality({i \in 1..Len(written) : written[i] = STOP_CMD})
TareErrors == {"TareTimeout", "TareFailed", "TareEndedWithoutResult"}
\* time since the start command 'm' / since the session clock was set
SinceStart == now - Val(start_wall)
SinceSession == now - Val(monitor_start_wall)

\* C1: whatever lines, empty reads and clock advances occur, the stop command
\* "x\n" is written to the device at most once in a run.
C1_StopAtMostOnce == StopCount <= 1

\* C1 witness: the loop was aborted by the hard timeout after one stop, with
\* the soft duration exceeded as well.
C1_Witness ==
    /\ exit_by = "timeout"
    /\ StopCount = 1
    /\ duration # None
    /\ SinceSession >= Val(duration)
    /\ SinceStart > timeout

\* C2: when the read loop has been left (by an end line or by the hard
\* timeout) with zero rows, the caller gets EmptySession; a return to the
\* caller always carries at least one row.
C2_EmptySessionRejected ==
    /\ (pc = "done" /\ exit_by # "none" /\ rows = <<>>) => result = "EmptySession"
    /\ result = "returned" => Len(rows) >= 1

\* C2 witness: the loop ended on an end line with no row and the caller got
\* EmptySession.
C2_Witness ==
    /\ pc = "done"
    /\ exit_by = "end"
    /\ rows = <<>>
    /\ result = "EmptySession"

\* C3: with a hard timeout T > 0 and a device from which no line has been
\* read since 'm', the loop is reading only while no more than T has passed,
\* it is left no later than T plus one read timeout after 'm', always by the
\* timeout, and no stop command is written.
C3_SilentDeviceBound ==
    (start_wall # None /\ timeout > 0 /\ rxCount = 0) =>
        /\ StopCount = 0
        /\ pc = "mon_read" => SinceStart <= timeout
        /\ SinceStart <= timeout + Poll
        /\ pc \notin {"mon_check", "mon_read"} => exit_by = "timeout"

\* C3 witness: a silent device, the loop left exactly T plus one read timeout
\* after 'm'.
C3_Witness ==
    /\ pc = "done"
    /\ rxCount = 0
    /\ exit_by = "timeout"
    /\ SinceStart = timeout + Poll
    /\ StopCount = 0

\* C4 as stated: for every timeout value, zero and negative included, a
\* deadline check made once the time since 'm' exceeds the timeout either
\* writes the stop command or leaves the loop.
C4_AlwaysActive ==
    [][(pc = "mon_check" /\ SinceStart > timeout)
          => (StopCount' > StopCount \/ pc' = "with_exit")]_vars

\* C4 amended: for every timeout T > 0, a deadline check made once the time
\* since 'm' exceeds T either writes the stop command or leaves the loop,
\* and the loop is never running later than T plus two read timeouts after
\* 'm'.
C4_ActiveWhenPositive ==
    /\ [][(timeout > 0 /\ pc = "mon_check" /\ SinceStart > timeout)
            => (StopCount' > StopCount \/ pc' = "with_exit")]_vars
    /\ []((timeout > 0 /\ start_wall # None) =>
            /\ SinceStart <= timeout + 2 * Poll
            /\ pc = "mon_read" => SinceStart <= timeout + Poll)

\* C4 witness: T > 0, the stop was requested by the hard timeout and the loop
\* was given up one read later, T plus two read timeouts after 'm'.
C4_Witness ==
    /\ timeout > 0
    /\ exit_by = "timeout"
    /\ sent_stop
    /\ SinceStart = timeout + 2 * Poll

\* C5 as stated: the soft duration is evaluated in every iteration, so at the
\* top of the loop a collecting session whose duration has elapsed has had its
\* stop command written.
C5_SoftEveryIteration ==
    (pc = "mon_check" /\ collecting /\ duration # None
        /\ SinceSession >= Val(duration)) => sent_stop

\* C6: while no session-start line has been read, a step of the read loop
\* that does not start the session leaves rows, the stop flag, the session
\* clock and the written commands as they were and goes back to the top of
\* the loop.
C6_AwaitingStartIgnores ==
    [][(pc = "mon_read" /\ ~collecting /\ ~collecting')
          => /\ rows' = rows
             /\ written' = written
             /\ sent_stop' = sent_stop
             /\ monitor_start_wall' = monitor_start_wall
             /\ pc' = "mon_check"]_vars

\* C6 witness: a line matching the row grammar or carrying an end marker was
\* read before the session started, and nothing came of it.
C6_Witness ==
    /\ ignored
    /\ ~collecting
    /\ pc = "mon_check"
    /\ rows = <<>>

\* C7 as stated: every row of the session comes from a line read strictly
\* after the first line that carried the session-start marker.
C7_RowsAfterStart ==
    \A i \in 1..Len(rowSrc) : startIdx >= 1 /\ rowSrc[i] > startIdx

\* C8: 'm' is written only after the handshake read a tare-success line, the
\* commands are written in the order z, m, x with none repeated, and after a
\* handshake failure only 'z' has been written, there are no rows, and the
\* caller gets that failure.
C8_StartOnlyAfterTare ==
    /\ Contains(written, START_CMD) => (tare_ok_seen /\ err = "none")
    /\ \E n \in 0..3 : written = SubSeq(<<TARE_CMD, START_CMD, STOP_CMD>>, 1, n)
    /\ err \in TareErrors =>
          /\ written = <<TARE_CMD>>
          /\ rows = <<>>
          /\ result \in {"none", err}
          /\ pc \in {"with_exit", "done"}

\* C8 witness: the handshake failed and the caller got the failure.
C8_Witness ==
    /\ pc = "done"
    /\ result \in TareErrors
    /\ ~tare_ok_seen
    /\ written = <<TARE_CMD>>

\* C9: once the with block has been left, and whenever the caller has a
\* result (a failure or a return), the serial port is closed.
C9_PortClosed ==
    /\ result # "none" => ~portOpen
    /\ pc \in {"finalize", "done"} => ~portOpen

\* C9 witness: EmptySession reported, port closed.
C9_Witness ==
    /\ result = "EmptySession"
    /\ ~portOpen

\* C10: a deadline check past the hard timeout while collecting writes the
\* stop command and goes on to read if no stop was sent, and leaves the loop
\* without reading, rows untouched, if a stop was sent.
C10_HardTimeoutTwoSteps ==
    [][(pc = "mon_check" /\ timeout > 0 /\ SinceStart > timeout /\ collecting)
          => IF ~sent_stop
             THEN /\ written' = Append(written, STOP_CMD)
                  /\ sent_stop'
                  /\ pc' = "mon_read"
                  /\ rows' = rows
             ELSE /\ pc' = "with_exit"
                  /\ written' = written
                  /\ rows' = rows
                  /\ rxCount' = rxCount
                  /\ now' = now]_vars

\* C10 witness: with rows collected, the hard timeout requested the stop and
\* gave up at the next check.
C10_Witness ==
    /\ exit_by = "timeout"
    /\ sent_stop
    /\ rows # <<>>
    /\ timeout > 0
    /\ SinceStart = timeout + 2 * Poll

\* C11: a non-empty line carrying '[M_SESSION_END]' or 'Monitoring stopped.
\* Collected', read while the session is collecting (stop sent or not, any
\* deadline passed or not, the line matching the row grammar or not), ends the
\* loop in that same iteration.
C11_EndLineExits ==
    [][(pc = "mon_read" /\ collecting /\ rxCount' = rxCount + 1 /\ last'.end)
          => (pc' = "with_exit" /\ exit_by' = "end")]_vars

\* C11 witness: after the hard timeout had passed and the stop was sent, a
\* line that matches the row grammar and carries an end marker ended the loop.
C11_Witness ==
    /\ exit_by = "end"
    /\ last.end
    /\ last.row
    /\ sent_stop
    /\ timeout > 0
    /\ SinceStart > timeout
    /\ startIdx < rxCount

\* time since the first session-start line was read
SinceBegan == now - Val(collect_began)

\* the loop ended on an end line read before either deadline had elapsed
EndedBeforeDeadlines ==
    /\ exit_by = "end"
    /\ timeout > 0 => SinceStart <= timeout
    /\ duration # None => SinceBegan < Val(duration)

\* C12 as stated: when the loop ends on an end line read before the soft
\* duration and the hard timeout have elapsed, no stop command has been
\* written and the session is, in arrival order and with duplicates, the rows
\* of the lines matching the row grammar read from the session-start line to
\* the end line; the caller gets it unless it is empty.
C12_CleanSession ==
    EndedBeforeDeadlines =>
        /\ StopCount = 0
        /\ Len(rows) = Len(matched)
        /\ \A i \in 1..Len(matched) :
              rows[i] = matched[i].row /\ rowSrc[i] = matched[i].n
        /\ pc = "done" =>
              result = IF matched = <<>> THEN "EmptySession" ELSE "returned"

\* time since 'z' was written
SinceTare == now - Val(tare_start)

\* C13: a readline() of the handshake is only entered within the maximum wait
\* since 'z' was written, so the handshake has returned or failed by the
\* maximum wait plus one read timeout; it fails with TareTimeout only after
\* the maximum wait, and an empty read by itself only leads back to the
\* deadline check.
C13_HandshakeBounded ==
    /\ [](/\ pc = "tare_read" => SinceTare <= tare_timeout_s
          /\ pc \in {"tare_check", "mon_start"}
                => SinceTare <= tare_timeout_s + Poll
          /\ err \in TareErrors => SinceTare <= tare_timeout_s + Poll
          /\ err = "TareTimeout" => SinceTare > tare_timeout_s
          /\ pc \in {"tare_write", "tare_check", "tare_read", "mon_start"}
                => err = "none")
    /\ [][(pc = "tare_read" /\ tare_last'.empty)
             => (pc' = "tare_check" /\ err' = err)]_vars

\* C13 witness: a silent device; the handshake gave up with TareTimeout one
\* read timeout after the maximum wait.
C13_Witness ==
    /\ pc = "done"
    /\ result = "TareTimeout"
    /\ tare_last.empty
    /\ ~banner_before
    /\ SinceTare = tare_timeout_s + Poll
    /\ written = <<TARE_CMD>>

\* the last line of the handshake carried the marker m
TareHas(m) == m \in tare_last.marks

\* C14 as stated: TareEndedWithoutResult only when the banner was seen on an
\* earlier line and a closing line without success or failure marker is then
\* read; a closing line read before any banner does not fail the handshake;
\* a line with the failure marker yields TareFailed.
C14_BannerThenClose ==
    /\ err = "TareEndedWithoutResult"
          => /\ banner_before
             /\ TareHas(TARE_CLOSE)
             /\ ~TareHas(TARE_OK)
             /\ ~TareHas(TARE_FAIL)
    /\ (TareHas(TARE_CLOSE) /\ ~banner_before)
          => err \notin {"TareEndedWithoutResult", "TareFailed"}
    /\ TareHas(TARE_FAIL) => err = "TareFailed"

\* C14, amended: TareEndedWithoutResult exactly when a line with the closing
\* text and neither result marker is read once the banner has been seen, on
\* an earlier line or on that very line; a closing line with neither the
\* banner nor the failure marker, read before any banner, does not fail the
\* handshake; a line with the failure marker yields TareFailed unless it also
\* carries the success marker, and then the handshake returns.
C14_CloseAfterBanner ==
    /\ err = "TareEndedWithoutResult"
          <=> /\ banner_before \/ TareHas(TARE_BANNER)
              /\ TareHas(TARE_CLOSE)
              /\ ~TareHas(TARE_OK)
              /\ ~TareHas(TARE_FAIL)
    /\ (TareHas(TARE_CLOSE) /\ ~banner_before /\ ~TareHas(TARE_BANNER)
           /\ ~TareHas(TARE_FAIL))
          => err \in {"none", "TareTimeout"}
    /\ (TareHas(TARE_FAIL) /\ ~TareHas(TARE_OK)) => err = "TareFailed"
    /\ (TareHas(TARE_FAIL) /\ TareHas(TARE_OK))
          => (err = "none" /\ pc = "mon_start")

\* C14 witness: the banner on one line, the closing line later, no result.
C14_Witness ==
    /\ pc = "done"
    /\ result = "TareEndedWithoutResult"
    /\ banner_before
    /\ tare_last.marks = {TARE_CLOSE}
    /\ written = <<TARE_CMD>>

\* a step of the capture loop that processes a line
LineStep == pc = "mon_read" /\ rxCount' = rxCount + 1

C16_ClockFromFirstStart ==
    collect_began # None => monitor_start_wall = collect_began

\* C17 as stated: parse_row gives a row only for a line that is, whole, seven
\* comma-separated fields of the stated shapes.
C17_WholeLineOnly ==
    (p_done /\ p_out # None) => WholeLineRow(p_line)

\* C18: the stop command has only ever been written once a session-start
\* line has been read (stop sent implies collecting), and a hard-timeout
\* check that finds the deadline exceeded before any session-start line
\* leaves the read loop at once and writes nothing.
C18_NoStopBeforeStart ==
    /\ [](sent_stop => collecting)
    /\ [](StopCount >= 1 => (startIdx >= 1 /\ collect_began # None))
    /\ [][(pc = "mon_check" /\ ~collecting /\ timeout > 0
              /\ SinceStart > timeout)
             => /\ pc' = "with_exit"
                /\ exit_by' = "timeout"
                /\ written' = written]_vars

\* C18 witness: lines were read, a data or end line among them, but no
\* session-start line; the hard timeout ended the loop and only 'z' and 'm'
\* were ever written.
C18_Witness ==
    /\ pc = "done"
    /\ exit_by = "timeout"
    /\ ~collecting
    /\ ignored
    /\ rxCount >= 1
    /\ written = <<TARE_CMD, START_CMD>>
    /\ result = "EmptySession"

\* C19: once the hard-timeout check has written the stop command, the loop
\* makes one more readline() and no second one: the next check leaves the
\* loop, unless the line just read already did.
C19_OneReadAfterHardStop ==
    /\ [](stop_hist.by = "hard" => stop_hist.reads <= 1)
    /\ []((stop_hist.by = "hard" /\ pc = "mon_read") => stop_hist.reads = 0)
    /\ []((stop_hist.by = "hard" /\ pc = "mon_check") => stop_hist.reads = 1)
    /\ [][(pc = "mon_check" /\ stop_hist.by = "hard")
             => (pc' = "with_exit" /\ exit_by' = "timeout")]_vars

\* C19 witness: the stop was written by the hard-timeout check, the one
\* further read brought no end line, and the next check ended the loop.
C19_Witness ==
    /\ pc = "done"
    /\ stop_hist.by = "hard"
    /\ stop_hist.reads = 1
    /\ ~last.end
    /\ exit_by = "timeout"
    /\ result = "returned"
    /\ written = <<TARE_CMD, START_CMD, STOP_CMD>>

=============================================================================
